---- MODULE Spec2Model ----
(***************************************************************************)
(* A model of the automated EDA tool: the analysis engine (EDAEngine), the *)
(* command line entry point (main) and the HTML report generator           *)
(* (ReportGenerator).                                                      *)
(*                                                                         *)
(* Numbers.  The engine computes in floating point; the model computes in  *)
(* exact rationals [nan, n, d] (d > 0, lowest terms) with a NaN value that *)
(* propagates through arithmetic and makes every comparison false.  The    *)
(* cells the model draws are small integers, for which the quantities of   *)
(* the outlier rule (multiples of 1/8) are exact in floating point too.    *)
(*                                                                         *)
(* Tables.  A DataFrame is a sequence of columns [name, dtype, cells]; a   *)
(* cell is [k, v] with k = "na" for a missing entry, "num" for a number,   *)
(* "str" for a text value (v numbers the text) and "bool" for a boolean.   *)
(***************************************************************************)
EXTENDS Integers, Sequences, FiniteSets, TLC

VARIABLES
    fs,          \* the file at the path handed to the program
    engine,      \* EDAEngine instance: "none" | "ready" | "raised"
    df,          \* the engine's self.df
    df0,         \* the table the engine was constructed with (history)
    ret,         \* the last analysis call: [op, val]
    first,       \* op -> the value its first call returned (history)
    repeated,    \* whether some analysis has been called again (history)
    argsortTies, \* how the installed sort orders equal counts
    mainpc,      \* position of main()
    stdout,      \* lines main() printed
    report,      \* main()'s report: [done, rows, columns, missing, outliers]
    written,     \* whether main() wrote the output file
    rg           \* ReportGenerator: [pc, how, exc, attr, html]

vars == <<fs, engine, df, df0, ret, first, repeated, argsortTies, mainpc,
          stdout, report, written, rg>>

(***************************************************************************)
(* Bounds of the model.                                                    *)
(***************************************************************************)
MaxRows == 2
OutLen == 5
CatLen == 5
CorrLen == 3

ColNames == <<"A", "B", "C">>

(***************************************************************************)
(* Exact numbers with NaN.                                                 *)
(***************************************************************************)
Abs(x) == IF x < 0 THEN -x ELSE x

RECURSIVE Gcd(_, _)
Gcd(a, b) == IF b = 0 THEN a ELSE Gcd(b, a % b)

NaN == [nan |-> TRUE, n |-> 0, d |-> 1]

R(n, d) ==
    LET s == IF d < 0 THEN -1 ELSE 1
        g == Gcd(Abs(n), Abs(d))
    IN  IF d = 0 THEN NaN
        ELSE [nan |-> FALSE, n |-> (s * n) \div g, d |-> (s * d) \div g]

RInt(i) == [nan |-> FALSE, n |-> i, d |-> 1]

RAdd(a, b) == IF a.nan \/ b.nan THEN NaN ELSE R(a.n * b.d + b.n * a.d, a.d * b.d)
RSub(a, b) == IF a.nan \/ b.nan THEN NaN ELSE R(a.n * b.d - b.n * a.d, a.d * b.d)
RMul(a, b) == IF a.nan \/ b.nan THEN NaN ELSE R(a.n * b.n, a.d * b.d)
RLt(a, b) == ~a.nan /\ ~b.nan /\ a.n * b.d < b.n * a.d
RGt(a, b) == RLt(b, a)

(***************************************************************************)
(* Cells, columns, tables.                                                 *)
(***************************************************************************)
NA == [k |-> "na", v |-> 0]
Num(i) == [k |-> "num", v |-> i]
Str(i) == [k |-> "str", v |-> i]
Bool(i) == [k |-> "bool", v |-> i]

isnull(c) == c.k = "na"

NRows(t) == IF Len(t) = 0 THEN 0 ELSE Len(t[1].cells)

RECURSIVE SeqSum(_)
SeqSum(s) == IF Len(s) = 0 THEN 0 ELSE Head(s) + SeqSum(Tail(s))

\* Series.dropna(): the present cells, in row order.
dropna(cells) == SelectSeq(cells, LAMBDA c : ~isnull(c))

\* The numbers of a numeric column's present cells, in row order.
RECURSIVE CellValues(_)
CellValues(cells) ==
    IF Len(cells) = 0 THEN <<>>
    ELSE IF isnull(Head(cells)) THEN CellValues(Tail(cells))
    ELSE <<Head(cells).v>> \o CellValues(Tail(cells))

(***************************************************************************)
(* pd.read_csv: dtype inference per column.  A column with no rows, or     *)
(* with any text, is object; all booleans is bool; numbers without a gap   *)
(* is int64; numbers with gaps, or gaps only, is float64.                  *)
(***************************************************************************)
InferDtype(cells) ==
    LET ks == {cells[i].k : i \in 1..Len(cells)}
    IN  IF Len(cells) = 0 THEN "object"
        ELSE IF ks = {"num"} THEN "int64"
        ELSE IF ks \subseteq {"num", "na"} THEN "float64"
        ELSE IF ks = {"bool"} THEN "bool"
        ELSE "object"

read_csv(file) ==
    IF ~file.exists THEN [exc |-> "FileNotFoundError", df |-> <<>>]
    ELSE IF ~file.parses \/ Len(file.cols) = 0
        THEN [exc |-> "ParserError", df |-> <<>>]
    ELSE [exc |-> "none",
          df |-> [i \in 1..Len(file.cols) |->
                    [name |-> file.cols[i].name,
                     dtype |-> InferDtype(file.cols[i].cells),
                     cells |-> file.cols[i].cells]]]

\* df.select_dtypes(include=[np.number]) / include=['object', 'category']
IsNumber(col) == col.dtype \in {"int64", "float64"}
IsObject(col) == col.dtype \in {"object", "category"}

select_number(t) == SelectSeq(t, IsNumber)
select_object(t) == SelectSeq(t, IsObject)

Names(t) == {t[i].name : i \in 1..Len(t)}
ColumnOf(t, name) == t[CHOOSE i \in 1..Len(t) : t[i].name = name]

EmptyDict == [x \in {} |-> 0]

DictPut(d, key, val) ==
    [x \in DOMAIN d \cup {key} |-> IF x = key THEN val ELSE d[x]]

(***************************************************************************)
(* analyze_missing_values: df.isnull().sum(), then missing[missing > 0].   *)
(***************************************************************************)
RECURSIVE isnull_sum(_)
isnull_sum(cells) ==
    IF Len(cells) = 0 THEN 0
    ELSE (IF isnull(Head(cells)) THEN 1 ELSE 0) + isnull_sum(Tail(cells))

KeepMissingZero(count) == count >= 0

KeepMissing(count) == count > 0

RECURSIVE MissingDict(_, _)
MissingDict(t, i) ==
    IF i = 0 THEN EmptyDict
    ELSE LET d == MissingDict(t, i - 1)
             count == isnull_sum(t[i].cells)
         IN  IF KeepMissing(count) THEN DictPut(d, t[i].name, count) ELSE d

analyze_missing_values(self_df) ==
    [exc |-> "none", ret |-> MissingDict(self_df, Len(self_df)), df |-> self_df]

(***************************************************************************)
(* Series.quantile(p), p = pnum/4: linear interpolation between the order  *)
(* statistics around the index p*(n-1) of the sorted present values; NaN   *)
(* when no value is present.                                               *)
(***************************************************************************)
RECURSIVE Insert(_, _)
Insert(x, s) ==
    IF Len(s) = 0 THEN <<x>>
    ELSE IF x <= Head(s) THEN <<x>> \o s
    ELSE <<Head(s)>> \o Insert(x, Tail(s))

RECURSIVE Sort(_)
Sort(s) == IF Len(s) = 0 THEN <<>> ELSE Insert(Head(s), Sort(Tail(s)))

\* The lower order statistic, without interpolation.
quantile_lower(cells, pnum) ==
    LET s == Sort(CellValues(cells))
        n == Len(s)
    IN  IF n = 0 THEN NaN ELSE RInt(s[(pnum * (n - 1)) \div 4 + 1])

quantile(cells, pnum) ==
    LET s == Sort(CellValues(cells))
        n == Len(s)
        pos == pnum * (n - 1)
        lo == pos \div 4
        frac == pos % 4
        hi == IF lo + 1 > n - 1 THEN n - 1 ELSE lo + 1
    IN  IF n = 0 THEN NaN
        ELSE RAdd(RInt(s[lo + 1]),
                  RMul(RInt(s[hi + 1] - s[lo + 1]), R(frac, 4)))

(***************************************************************************)
(* detect_outliers_iqr                                                     *)
(***************************************************************************)
\* (nums[col] < lower_bound) | (nums[col] > upper_bound), one cell
IsOutlierInclusive(c, lower_bound, upper_bound) ==
    /\ ~isnull(c)
    /\ ~RGt(RInt(c.v), lower_bound) \/ ~RLt(RInt(c.v), upper_bound)

IsOutlier(c, lower_bound, upper_bound) ==
    /\ ~isnull(c)
    /\ RLt(RInt(c.v), lower_bound) \/ RGt(RInt(c.v), upper_bound)

RECURSIVE OutlierSum(_, _, _)
OutlierSum(cells, lower_bound, upper_bound) ==
    IF Len(cells) = 0 THEN 0
    ELSE (IF IsOutlier(Head(cells), lower_bound, upper_bound) THEN 1 ELSE 0)
         + OutlierSum(Tail(cells), lower_bound, upper_bound)

OutlierCount(cells) ==
    LET Q1 == quantile(cells, 1)
        Q3 == quantile(cells, 3)
        IQR == RSub(Q3, Q1)
        lower_bound == RSub(Q1, RMul(R(3, 2), IQR))
        upper_bound == RAdd(Q3, RMul(R(3, 2), IQR))
    IN  OutlierSum(cells, lower_bound, upper_bound)

ReportOutliers(count) == count > 0

RECURSIVE OutlierDict(_, _)
OutlierDict(nums, i) ==
    IF i = 0 THEN EmptyDict
    ELSE LET outliers == OutlierDict(nums, i - 1)
             count == OutlierCount(nums[i].cells)
         IN  IF ReportOutliers(count)
                THEN DictPut(outliers, nums[i].name, count)
                ELSE outliers

\* The selection assigned back: self.df = self.df.select_dtypes(...).
detect_outliers_iqr_narrowing(self_df) ==
    LET nums == select_number(self_df)
    IN  [exc |-> "none", ret |-> OutlierDict(nums, Len(nums)), df |-> nums]

detect_outliers_iqr(self_df) ==
    LET nums == select_number(self_df)
    IN  [exc |-> "none", ret |-> OutlierDict(nums, Len(nums)), df |-> self_df]

(***************************************************************************)
(* Series.value_counts(): the distinct present values in the order of      *)
(* their first occurrence, each with its count, then sort_values(          *)
(* ascending=False) with the default kind, which is not a stable sort: the *)
(* order of equal counts is whatever the installed pandas/numpy produces.  *)
(* Two orders known from released versions are modelled: "first" (equal    *)
(* counts keep first-occurrence order: reverse, sort ascending, reverse)   *)
(* and "last" (sorted ascending, then reversed whole).                     *)
(***************************************************************************)
RECURSIVE Uniques(_, _)
Uniques(cells, seen) ==
    IF Len(cells) = 0 THEN <<>>
    ELSE IF isnull(Head(cells)) \/ Head(cells) \in seen
        THEN Uniques(Tail(cells), seen)
    ELSE <<Head(cells)>> \o Uniques(Tail(cells), seen \cup {Head(cells)})

RECURSIVE Occurrences(_, _)
Occurrences(cells, c) ==
    IF Len(cells) = 0 THEN 0
    ELSE (IF Head(cells) = c THEN 1 ELSE 0) + Occurrences(Tail(cells), c)

Reverse(s) == [i \in 1..Len(s) |-> s[Len(s) + 1 - i]]

\* Stable insertion of an item [value, count] into an ascending sequence.
RECURSIVE InsertByCount(_, _)
InsertByCount(x, s) ==
    IF Len(s) = 0 THEN <<x>>
    ELSE IF x.count < Head(s).count THEN <<x>> \o s
    ELSE <<Head(s)>> \o InsertByCount(x, Tail(s))

RECURSIVE SortByCount(_)
SortByCount(s) ==
    IF Len(s) = 0 THEN <<>>
    ELSE InsertByCount(s[Len(s)], SortByCount(SubSeq(s, 1, Len(s) - 1)))

\* No sort at all: the items in first-occurrence order.
sort_values_none(items, ties) == items

sort_values_desc(items, ties) ==
    IF ties = "first" THEN Reverse(SortByCount(Reverse(items)))
    ELSE Reverse(SortByCount(items))

value_counts(cells, ties) ==
    LET keys == Uniques(cells, {})
        items == [i \in 1..Len(keys) |->
                    [value |-> keys[i], count |-> Occurrences(cells, keys[i])]]
    IN  sort_values_desc(items, ties)

head(s, n) == SubSeq(s, 1, IF Len(s) < n THEN Len(s) ELSE n)

nunique(cells) == Len(Uniques(cells, {}))

(***************************************************************************)
(* get_categorical_summary                                                 *)
(***************************************************************************)
TopN == 3

RECURSIVE CategoricalDict(_, _, _)
CategoricalDict(cat_cols, i, ties) ==
    IF i = 0 THEN EmptyDict
    ELSE DictPut(CategoricalDict(cat_cols, i - 1, ties), cat_cols[i].name,
                 [unique_count |-> nunique(cat_cols[i].cells),
                  top_freq |-> head(value_counts(cat_cols[i].cells, ties), TopN)])

get_categorical_summary(self_df, ties) ==
    LET cat_cols == select_object(self_df)
    IN  [exc |-> "none",
         ret |-> CategoricalDict(cat_cols, Len(cat_cols), ties),
         df |-> self_df]

(***************************************************************************)
(* get_correlations: DataFrame.corr() is Pearson's r over the rows where   *)
(* both columns are present (min_periods = 1).  r = cov / sqrt(vx * vy) is *)
(* kept exactly as its sign and its square [nan, sgn, n, d]; NaN when no   *)
(* row is complete or the divisor is 0.                                    *)
(***************************************************************************)
CoefNaN == [nan |-> TRUE, sgn |-> 0, n |-> 0, d |-> 1]

Sgn(x) == IF x < 0 THEN -1 ELSE IF x > 0 THEN 1 ELSE 0

\* The rows in which both columns hold a value.
PairRows(x, y) == {i \in 1..Len(x) : ~isnull(x[i]) /\ ~isnull(y[i])}

RECURSIVE SumOver(_, _, _)
SumOver(rows, x, y) ==
    IF rows = {} THEN 0
    ELSE LET i == CHOOSE j \in rows : TRUE
         IN  x[i].v * y[i].v + SumOver(rows \ {i}, x, y)

Ones(x) == [i \in 1..Len(x) |-> Num(1)]

\* The covariance divided by the variance of x alone.
nancorr_by_x(x, y) ==
    LET rows == PairRows(x, y)
        nobs == Cardinality(rows)
        sx == SumOver(rows, x, Ones(x))
        sy == SumOver(rows, y, Ones(y))
        ssqdm_x == nobs * SumOver(rows, x, x) - sx * sx
        covxy == nobs * SumOver(rows, x, y) - sx * sy
        sq == R(covxy * covxy, ssqdm_x * ssqdm_x)
    IN  IF nobs < 1 THEN CoefNaN
        ELSE IF ssqdm_x = 0 THEN CoefNaN
        ELSE [nan |-> FALSE, sgn |-> Sgn(covxy), n |-> sq.n, d |-> sq.d]

nancorr(x, y) ==
    LET rows == PairRows(x, y)
        nobs == Cardinality(rows)
        sx == SumOver(rows, x, Ones(x))
        sy == SumOver(rows, y, Ones(y))
        \* nobs times the sums of squared deviations and of cross products
        ssqdm_x == nobs * SumOver(rows, x, x) - sx * sx
        ssqdm_y == nobs * SumOver(rows, y, y) - sy * sy
        covxy == nobs * SumOver(rows, x, y) - sx * sy
        sq == R(covxy * covxy, ssqdm_x * ssqdm_y)
    IN  IF nobs < 1 THEN CoefNaN
        ELSE IF ssqdm_x * ssqdm_y = 0 THEN CoefNaN
        ELSE [nan |-> FALSE, sgn |-> Sgn(covxy), n |-> sq.n, d |-> sq.d]

corr(nums) ==
    [a \in Names(nums) |->
        [b \in Names(nums) |->
            nancorr(ColumnOf(nums, a).cells, ColumnOf(nums, b).cells)]]

\* DataFrame.empty: some axis has length 0
empty(t) == Len(t) = 0 \/ NRows(t) = 0

get_correlations(self_df) ==
    LET nums == select_number(self_df)
    IN  [exc |-> "none",
         ret |-> IF empty(nums) THEN EmptyDict ELSE corr(nums),
         df |-> self_df]

(***************************************************************************)
(* get_basic_stats: DataFrame.describe().to_dict().  describe() takes the  *)
(* numeric columns; when the frame has none it describes every column      *)
(* with count / unique / top / freq instead; a frame without columns       *)
(* raises ValueError.  std is kept as its square (the sample variance).    *)
(***************************************************************************)
describe_numeric_1d(cells) ==
    LET vals == CellValues(cells)
        s == Sort(vals)
        n == Len(vals)
        sum == SeqSum(vals)
        sumsq == SeqSum([i \in 1..n |-> vals[i] * vals[i]])
    IN  [count |-> RInt(n),
         mean |-> R(sum, n),
         std |-> R(n * sumsq - sum * sum, n * (n - 1)),
         min |-> IF n = 0 THEN NaN ELSE RInt(s[1]),
         q25 |-> quantile(cells, 1),
         q50 |-> quantile(cells, 2),
         q75 |-> quantile(cells, 3),
         max |-> IF n = 0 THEN NaN ELSE RInt(s[n])]

describe_categorical_1d(cells, ties) ==
    LET objcounts == value_counts(cells, ties)
    IN  [count |-> RInt(Len(dropna(cells))),
         unique |-> Len(objcounts),
         top |-> IF Len(objcounts) > 0 THEN objcounts[1].value ELSE NA,
         freq |-> IF Len(objcounts) > 0 THEN RInt(objcounts[1].count) ELSE NaN]

\* The columns describe() takes by default.
describe_columns(t) ==
    IF Len(select_number(t)) = 0 THEN t ELSE select_number(t)

describe(t, ties) ==
    LET data == describe_columns(t)
    IN  [name \in Names(data) |->
            IF IsNumber(ColumnOf(data, name))
                THEN describe_numeric_1d(ColumnOf(data, name).cells)
                ELSE describe_categorical_1d(ColumnOf(data, name).cells, ties)]

get_basic_stats(self_df, ties) ==
    IF Len(self_df) = 0
        THEN [exc |-> "ValueError", ret |-> EmptyDict, df |-> self_df]
        ELSE [exc |-> "none", ret |-> describe(self_df, ties), df |-> self_df]

(***************************************************************************)
(* EDAEngine.__init__(data_path): self.df = pd.read_csv(data_path).  The   *)
(* argument is either a path, read from the file system, or an in-memory   *)
(* DataFrame, which read_csv rejects (ValueError: invalid file path or     *)
(* buffer object type).                                                    *)
(***************************************************************************)
EDAEngine_init(arg, file) ==
    IF arg.kind = "path" THEN read_csv(file)
    ELSE [exc |-> "ValueError", df |-> <<>>]

(***************************************************************************)
(* The files the model draws: columns of equal length, named in order.     *)
(***************************************************************************)
File(colcells) ==
    [exists |-> TRUE, parses |-> TRUE,
     cols |-> [i \in 1..Len(colcells) |->
                 [name |-> ColNames[i], cells |-> colcells[i]]]]

NoFile == [exists |-> FALSE, parses |-> FALSE, cols |-> <<>>]
BadFile == [exists |-> TRUE, parses |-> FALSE, cols |-> <<>>]

Cols(tokens, r) == [1..r -> tokens]

\* Small tables of every column type, for the engine, main and the report:
\* no file, an unreadable file, or a column of up to MaxRows rows of any
\* type, alone or beside a second column (numbers 1..r, text after a gap,
\* or booleans).
SmallCols(r) ==
    Cols({NA, Num(1), Num(2)}, r) \cup Cols({NA, Str(1)}, r) \cup Cols({Bool(1)}, r)

Second(r) ==
    {[i \in 1..r |-> Num(i)],
     [i \in 1..r |-> IF i = 1 THEN NA ELSE Str(i)],
     [i \in 1..r |-> Bool(1)]}

SmallFile(f) ==
    \/ f \in {NoFile, BadFile}
    \/ \E r \in 0..MaxRows : \E a \in SmallCols(r) :
           \/ f = File(<<a>>)
           \/ \E b \in Second(r) : f = File(<<a, b>>)

\* One numeric column of up to OutLen rows beside nothing, a text column,
\* a boolean column or a second numeric column (ones with a last row of
\* 100, or the numbers 1..r).
Beside(r) ==
    {<<>>, <<[i \in 1..r |-> Str(1)]>>, <<[i \in 1..r |-> Bool(1)]>>,
     <<[i \in 1..r |-> IF i = r THEN Num(100) ELSE Num(1)]>>,
     <<[i \in 1..r |-> Num(i)]>>}

OutlierFile(f) ==
    \E r \in 1..OutLen : \E a \in Cols({NA, Num(10), Num(11), Num(100)}, r) :
        \E b \in Beside(r) : f = File(<<a>> \o b)

\* One text column of up to CatLen rows over four values, beside nothing or
\* a numeric column.
CategoricalFile(f) ==
    \E r \in 0..CatLen : \E a \in Cols({NA, Str(1), Str(2), Str(3), Str(4)}, r) :
        \E b \in {<<>>, <<[i \in 1..r |-> Num(i)]>>} : f = File(<<a>> \o b)

\* Two numeric columns of up to CorrLen rows, beside nothing or a text column.
CorrelationFile(f) ==
    \E r \in 0..CorrLen : \E a \in Cols({NA, Num(1), Num(2)}, r) :
        \E b \in Cols({NA, Num(1), Num(2)}, r) :
            \E c \in {<<>>, <<[i \in 1..r |-> Str(1)]>>} : f = File(<<a, b>> \o c)

(***************************************************************************)
(* The engine used as a library: construct it, then call any analysis any  *)
(* number of times.                                                        *)
(***************************************************************************)
NoEngine == [st |-> "none", how |-> "none", exc |-> "none"]
NoCall == [op |-> "none", exc |-> "none", val |-> EmptyDict]
NoReportGenerator ==
    [pc |-> "none", how |-> "none", exc |-> "none", attr |-> "none",
     html |-> [missing_section |-> FALSE, pct |-> EmptyDict,
               outlier_section |-> FALSE, hist_img |-> FALSE,
               corr_img |-> FALSE, cat_img |-> FALSE]]
NoReport == [done |-> {}, rows |-> 0, columns |-> 0, missing |-> 0, outliers |-> 0]

InitWith(ties, pc) ==
    /\ engine = NoEngine
    /\ df = <<>>
    /\ df0 = <<>>
    /\ ret = NoCall
    /\ first = EmptyDict
    /\ repeated = FALSE
    /\ argsortTies \in ties
    /\ mainpc = pc
    /\ stdout = <<>>
    /\ report = NoReport
    /\ written = FALSE
    /\ rg = NoReportGenerator

ArgKinds == {"path", "frame"}

Construct ==
    /\ engine.st = "none"
    /\ mainpc = "idle"
    /\ rg.pc = "none"
    /\ \E how \in ArgKinds :
        LET r == EDAEngine_init([kind |-> how], fs)
        IN  \* an in-memory table is one the caller has loaded
            /\ how = "frame" => read_csv(fs).exc = "none"
            /\ engine' = [st |-> IF r.exc = "none" THEN "ready" ELSE "raised",
                          how |-> how, exc |-> r.exc]
            /\ df' = r.df
            /\ df0' = r.df
    /\ UNCHANGED <<fs, ret, first, repeated, argsortTies, mainpc, stdout,
                   report, written, rg>>

\* A call of an analysis on the engine: its return value and its effect
\* on self.df.
Call(op, r) ==
    /\ engine.st = "ready"
    /\ mainpc = "idle"
    /\ rg.pc = "none"
    /\ ret' = [op |-> op, exc |-> r.exc, val |-> r.ret]
    /\ first' = IF op \in DOMAIN first THEN first ELSE DictPut(first, op, r.ret)
    /\ repeated' = (repeated \/ op \in DOMAIN first)
    /\ df' = r.df
    /\ UNCHANGED <<fs, engine, df0, argsortTies, mainpc, stdout, report,
                   written, rg>>

GetBasicStats == Call("get_basic_stats", get_basic_stats(df, argsortTies))
AnalyzeMissingValues == Call("analyze_missing_values", analyze_missing_values(df))
GetCategoricalSummary ==
    Call("get_categorical_summary", get_categorical_summary(df, argsortTies))
GetCorrelations == Call("get_correlations", get_correlations(df))
DetectOutliersIqr == Call("detect_outliers_iqr", detect_outliers_iqr(df))

Init == SmallFile(fs) /\ InitWith({"first", "last"}, "idle")

Next ==
    \/ Construct
    \/ GetBasicStats
    \/ AnalyzeMissingValues
    \/ GetCategoricalSummary
    \/ GetCorrelations
    \/ DetectOutliersIqr

Spec == Init /\ [][Next]_vars

InitOutliers == OutlierFile(fs) /\ InitWith({"first"}, "idle")
NextOutliers == Construct \/ DetectOutliersIqr
SpecOutliers == InitOutliers /\ [][NextOutliers]_vars

InitCategorical == CategoricalFile(fs) /\ InitWith({"first", "last"}, "idle")
NextCategorical == Construct \/ GetCategoricalSummary
SpecCategorical == InitCategorical /\ [][NextCategorical]_vars

InitCorrelations == CorrelationFile(fs) /\ InitWith({"first"}, "idle")
NextCorrelations == Construct \/ GetCorrelations
SpecCorrelations == InitCorrelations /\ [][NextCorrelations]_vars

(***************************************************************************)
(* main(): parse the arguments, then inside one try block print the        *)
(* banner, construct the engine, gather the report, write it, print the    *)
(* summary.  FileNotFoundError and every other Exception are caught at the *)
(* end of main, which prints one error line and returns.                   *)
(***************************************************************************)
Line(text, a, b) == [text |-> text, a |-> a, b |-> b]

\* The handler reached by an exception: the line it prints and where main
\* goes next.
except_not_found_only(exc) ==
    IF exc = "FileNotFoundError"
        THEN [pc |-> "returned", line |-> Line("Error: File not found.", 0, 0)]
        ELSE [pc |-> "raised", line |-> Line("Traceback", 0, 0)]

except_clause(exc) ==
    IF exc = "FileNotFoundError"
        THEN [pc |-> "returned", line |-> Line("Error: File not found.", 0, 0)]
        ELSE [pc |-> "returned", line |-> Line("Error: e", 0, 0)]

Raise(exc) ==
    /\ mainpc' = except_clause(exc).pc
    /\ stdout' = Append(stdout, except_clause(exc).line)

\* The report's entries in the order the dict literal evaluates them.
ReportKeys ==
    <<"analyze_missing_values", "get_basic_stats", "get_categorical_summary",
      "detect_outliers_iqr", "get_correlations">>

DictTotal(d) == SeqSum([i \in 1..Len(df) |->
                          IF df[i].name \in DOMAIN d THEN d[df[i].name] ELSE 0])

MainConstruct ==
    /\ mainpc = "start"
    /\ LET r == EDAEngine_init([kind |-> "path"], fs)
       IN  IF r.exc = "none"
             THEN /\ engine' = [st |-> "ready", how |-> "path", exc |-> "none"]
                  /\ df' = r.df
                  /\ df0' = r.df
                  /\ mainpc' = "constructed"
                  /\ stdout' = Append(stdout, Line("Analyzing", 0, 0))
             ELSE /\ engine' = [st |-> "raised", how |-> "path", exc |-> r.exc]
                  /\ mainpc' = except_clause(r.exc).pc
                  /\ stdout' = stdout \o <<Line("Analyzing", 0, 0),
                                           except_clause(r.exc).line>>
                  /\ UNCHANGED <<df, df0>>
    /\ UNCHANGED <<fs, ret, first, repeated, argsortTies, report, written, rg>>

\* The five analyses, in order; failsAt > 0 is an exception out of the
\* failsAt-th one (get_basic_stats raising ValueError on a frame without
\* columns, or the run-time failing, as for want of memory).
MainAnalyze ==
    /\ mainpc = "constructed"
    /\ \E failsAt \in 0..Len(ReportKeys) :
        LET stats == get_basic_stats(df, argsortTies)
            exc == IF failsAt > 0 THEN "MemoryError"
                   ELSE stats.exc
            n == IF failsAt > 0 THEN failsAt - 1
                 ELSE IF stats.exc # "none" THEN 1 ELSE Len(ReportKeys)
        IN  /\ report' = [done |-> {ReportKeys[i] : i \in 1..n},
                          rows |-> NRows(df),
                          columns |-> Len(df),
                          missing |-> IF n >= 1
                              THEN DictTotal(analyze_missing_values(df).ret) ELSE 0,
                          outliers |-> IF n >= 4
                              THEN DictTotal(detect_outliers_iqr(df).ret) ELSE 0]
            /\ IF exc = "none"
                 THEN mainpc' = "analyzed" /\ stdout' = stdout
                 ELSE Raise(exc)
    /\ UNCHANGED <<fs, engine, df, df0, ret, first, repeated, argsortTies,
                   written, rg>>

\* open(args.output, 'w') and json.dump, which the file system may refuse,
\* then the line that the report is saved.
MainWrite ==
    /\ mainpc = "analyzed"
    /\ \E exc \in {"none", "OSError"} :
        IF exc = "none"
          THEN /\ written' = TRUE
               /\ mainpc' = "written"
               /\ stdout' = Append(stdout, Line("EDA Report saved", 0, 0))
          ELSE /\ written' = FALSE
               /\ Raise(exc)
    /\ UNCHANGED <<fs, engine, df, df0, ret, first, repeated, argsortTies,
                   report, rg>>

MainSummary ==
    /\ mainpc = "written"
    /\ stdout' = stdout \o <<Line("--- Quick Summary ---", 0, 0),
                             Line("Rows, Columns", report.rows, report.columns),
                             Line("Missing Values", report.missing, 0),
                             Line("Outliers Detected", report.outliers, 0)>>
    /\ mainpc' = "returned"
    /\ UNCHANGED <<fs, engine, df, df0, ret, first, repeated, argsortTies,
                   report, written, rg>>

InitMain == SmallFile(fs) /\ InitWith({"first", "last"}, "start")
NextMain == MainConstruct \/ MainAnalyze \/ MainWrite \/ MainSummary
SpecMain == InitMain /\ [][NextMain]_vars

(***************************************************************************)
(* ReportGenerator.  __init__ keeps df, builds EDAEngine(df) and           *)
(* Visualizer(df); generate_report asks the engine for four analyses by    *)
(* name, then the visualizer for three figures, then assembles the HTML.   *)
(* An attribute the engine does not define raises AttributeError.          *)
(***************************************************************************)
EngineMethods ==
    {"get_basic_stats", "analyze_missing_values", "get_categorical_summary",
     "get_correlations", "detect_outliers_iqr"}

RequestedAnalyses ==
    <<"get_basic_stats", "get_missing_values", "get_categorical_summary",
      "get_outliers">>

\* self.engine.<name>(): the engine's method of that name, if it has one.
engine_call(name, t, ties) ==
    IF name \notin EngineMethods
        THEN [exc |-> "AttributeError", ret |-> EmptyDict, df |-> t]
    ELSE IF name = "get_basic_stats" THEN get_basic_stats(t, ties)
    ELSE IF name = "analyze_missing_values" THEN analyze_missing_values(t)
    ELSE IF name = "get_categorical_summary" THEN get_categorical_summary(t, ties)
    ELSE IF name = "get_correlations" THEN get_correlations(t)
    ELSE detect_outliers_iqr(t)

\* Lines 29-32: the requested analyses in order, up to the first that raises.
RECURSIVE run_analyses(_, _, _)
run_analyses(i, t, ties) ==
    IF i > Len(RequestedAnalyses) THEN [exc |-> "none", attr |-> "none"]
    ELSE IF engine_call(RequestedAnalyses[i], t, ties).exc # "none"
        THEN [exc |-> engine_call(RequestedAnalyses[i], t, ties).exc,
              attr |-> RequestedAnalyses[i]]
    ELSE run_analyses(i + 1, t, ties)

\* The sections of the document: Missing Values when the missing mapping is
\* not empty, each percentage count / len(self.df) * 100; Outliers when the
\* outlier mapping is not empty; one image per figure the visualizer made.
html_sections(t, missing, outliers) ==
    [missing_section |-> DOMAIN missing # {},
     pct |-> [name \in DOMAIN missing |-> R(missing[name] * 100, NRows(t))],
     outlier_section |-> DOMAIN outliers # {},
     hist_img |-> Len(select_number(t)) > 0,
     corr_img |-> ~empty(select_number(t)),
     cat_img |-> Len(select_object(t)) > 0]

NoHtml == html_sections(<<>>, EmptyDict, EmptyDict)

generate_report(t, ties) ==
    IF run_analyses(1, t, ties).exc # "none"
        THEN [exc |-> run_analyses(1, t, ties).exc,
              attr |-> run_analyses(1, t, ties).attr,
              html |-> NoHtml]
    ELSE [exc |-> "none", attr |-> "none",
          html |-> html_sections(t,
                       engine_call(RequestedAnalyses[2], t, ties).ret,
                       engine_call(RequestedAnalyses[4], t, ties).ret)]

\* ReportGenerator(df): df is the in-memory table the signature asks for,
\* or whatever else the caller passes, such as a path.
RGInit ==
    /\ rg.pc = "none"
    /\ engine.st = "none"
    /\ mainpc = "idle"
    /\ \E how \in ArgKinds :
        LET r == EDAEngine_init([kind |-> how], fs)
        IN  /\ how = "frame" => read_csv(fs).exc = "none"
            /\ engine' = [st |-> IF r.exc = "none" THEN "ready" ELSE "raised",
                          how |-> how, exc |-> r.exc]
            /\ df' = r.df
            /\ df0' = r.df
            /\ rg' = [pc |-> IF r.exc = "none" THEN "constructed" ELSE "raised",
                      how |-> how, exc |-> r.exc, attr |-> "none",
                      html |-> NoHtml]
    /\ UNCHANGED <<fs, ret, first, repeated, argsortTies, mainpc, stdout,
                   report, written>>

GenerateReport ==
    /\ rg.pc = "constructed"
    /\ \E r \in {generate_report(df, argsortTies)} :
         rg' = [rg EXCEPT !.pc = IF r.exc = "none" THEN "returned" ELSE "raised",
                          !.exc = r.exc,
                          !.attr = r.attr,
                          !.html = r.html]
    /\ UNCHANGED <<fs, engine, df, df0, ret, first, repeated, argsortTies,
                   mainpc, stdout, report, written>>

InitReport == SmallFile(fs) /\ InitWith({"first", "last"}, "idle")
NextReport == RGInit \/ GenerateReport
SpecReport == InitReport /\ [][NextReport]_vars

(***************************************************************************)
(* What the specification says of a column, stated on the table the engine *)
(* was given and without the engine's operators.                           *)
(***************************************************************************)
Numeric(col) == col.dtype \in {"int64", "float64"}
Categorical(col) == col.dtype \in {"object", "category"}

PresentRows(cells) == {i \in 1..Len(cells) : cells[i].k # "na"}
MissingRows(cells) == {i \in 1..Len(cells) : cells[i].k = "na"}

\* The k-th smallest present value (k = 1 is the minimum).
OrderStat(cells, k) ==
    LET P == PresentRows(cells)
    IN  CHOOSE x \in {cells[i].v : i \in P} :
            /\ Cardinality({i \in P : cells[i].v < x}) < k
            /\ k <= Cardinality({i \in P : cells[i].v <= x})

\* Four times the percentile pnum/4: linear interpolation at pnum/4 * (n-1).
Percentile4(cells, pnum) ==
    LET n == Cardinality(PresentRows(cells))
        pos == pnum * (n - 1)
        below == OrderStat(cells, pos \div 4 + 1)
        above == OrderStat(cells, IF pos % 4 = 0 THEN pos \div 4 + 1
                                                 ELSE pos \div 4 + 2)
    IN  4 * below + (pos % 4) * (above - below)

\* The present values outside [Q1 - 1.5 IQR, Q3 + 1.5 IQR], in eighths.
ExpectedOutliers(cells) ==
    LET P == PresentRows(cells)
        Q1 == Percentile4(cells, 1)
        Q3 == Percentile4(cells, 3)
        lower8 == 2 * Q1 - 3 * (Q3 - Q1)
        upper8 == 2 * Q3 + 3 * (Q3 - Q1)
    IN  IF P = {} THEN 0
        ELSE Cardinality({i \in P : 8 * cells[i].v < lower8
                                    \/ 8 * cells[i].v > upper8})

Returned(op) == engine.st = "ready" /\ ret.op = op

(***************************************************************************)
(* C1.  detect_outliers_iqr returns exactly the Numeric columns whose      *)
(* number of present values strictly below Q1 - 1.5 IQR or strictly above  *)
(* Q3 + 1.5 IQR is positive, each mapped to that number; never a column    *)
(* with count 0, never a column that is not Numeric.                       *)
(***************************************************************************)
C1_OutliersExactlyPositiveCounts ==
    Returned("detect_outliers_iqr") =>
        /\ DOMAIN ret.val =
             {df0[i].name : i \in {j \in 1..Len(df0) :
                 Numeric(df0[j]) /\ ExpectedOutliers(df0[j].cells) > 0}}
        /\ \A i \in 1..Len(df0) :
             df0[i].name \in DOMAIN ret.val =>
                 ret.val[df0[i].name] = ExpectedOutliers(df0[i].cells)

\* A column with a non-zero IQR is reported with its one outlier while the
\* numeric column beside it has none and is left out.
C1_Witness ==
    /\ Returned("detect_outliers_iqr")
    /\ Len(df0) = 2
    /\ Numeric(df0[2])
    /\ DOMAIN ret.val = {"A"}
    /\ ret.val["A"] = 1
    /\ Percentile4(df0[1].cells, 1) # Percentile4(df0[1].cells, 3)

(***************************************************************************)
(* C9.  Degenerate columns are not special-cased by detect_outliers_iqr:   *)
(* with IQR = 0 (Q1 = Q3 = c) exactly the present values different from c  *)
(* are counted; a column with fewer than 4 present values is reported      *)
(* under the interpolated rule; a column with no present value is left     *)
(* out; D = [10, 100, 10, 10, 10] is reported with count 1.                *)
(***************************************************************************)
ScenarioD == <<Num(10), Num(100), Num(10), Num(10), Num(10)>>

C9_DegenerateColumns ==
    Returned("detect_outliers_iqr") =>
        \A i \in 1..Len(df0) :
            LET cells == df0[i].cells
                name == df0[i].name
                P == PresentRows(cells)
                c4 == Percentile4(cells, 1)
                differ == Cardinality({j \in P : 4 * cells[j].v # c4})
                reported == IF name \in DOMAIN ret.val THEN ret.val[name] ELSE 0
            IN  Numeric(df0[i]) =>
                  /\ P = {} => reported = 0
                  /\ (P # {} /\ c4 = Percentile4(cells, 3)) => reported = differ
                  /\ Cardinality(P) < 4 => reported = ExpectedOutliers(cells)
                  /\ cells = ScenarioD => reported = 1

C9_Witness ==
    /\ Returned("detect_outliers_iqr")
    /\ df0[1].cells = ScenarioD
    /\ "A" \in DOMAIN ret.val
    /\ ret.val["A"] = 1

(***************************************************************************)
(* C2.  analyze_missing_values returns exactly the columns, of any type,   *)
(* with at least one missing entry, each mapped to the number of its       *)
(* missing entries; a column without missing entries is never a key.       *)
(***************************************************************************)
C2_MissingExactlyPositiveCounts ==
    Returned("analyze_missing_values") =>
        /\ DOMAIN ret.val =
             {df0[i].name : i \in {j \in 1..Len(df0) :
                 MissingRows(df0[j].cells) # {}}}
        /\ \A i \in 1..Len(df0) :
             df0[i].name \in DOMAIN ret.val =>
                 ret.val[df0[i].name] = Cardinality(MissingRows(df0[i].cells))

\* A text column with a gap is reported while the complete column beside
\* it is not.
C2_Witness ==
    /\ Returned("analyze_missing_values")
    /\ Len(df0) = 2
    /\ Categorical(df0[1])
    /\ DOMAIN ret.val = {"A"}
    /\ ret.val["A"] = 1
    /\ MissingRows(df0[2].cells) = {}

(***************************************************************************)
(* Categorical summary, as the specification words it.                     *)
(***************************************************************************)
DistinctPresent(cells) == {cells[i] : i \in PresentRows(cells)}
CountOf(cells, x) == Cardinality({i \in 1..Len(cells) : cells[i] = x})
FirstRow(cells, x) == CHOOSE i \in 1..Len(cells) :
                          cells[i] = x /\ \A j \in 1..(i - 1) : cells[j] # x

\* The place of x when the values are ranked by falling count, equal counts
\* by first occurrence.
RankOf(cells, x) ==
    1 + Cardinality({y \in DistinctPresent(cells) :
            \/ CountOf(cells, y) > CountOf(cells, x)
            \/ /\ CountOf(cells, y) = CountOf(cells, x)
               /\ FirstRow(cells, y) < FirstRow(cells, x)})

Min(a, b) == IF a < b THEN a ELSE b

CategoricalKeys ==
    DOMAIN ret.val = {df0[i].name : i \in {j \in 1..Len(df0) : Categorical(df0[j])}}

(***************************************************************************)
(* C3 as claimed.  get_categorical_summary is keyed by exactly the         *)
(* Categorical columns; unique_count is the number of distinct present     *)
(* values; top_freq holds the (at most 3) most frequent present values     *)
(* with their counts in descending count order, values of equal frequency  *)
(* ranked by the row of their first occurrence (the earlier one first, and *)
(* kept when the cut at 3 falls inside a tie).                             *)
(***************************************************************************)
C3_TiesByFirstOccurrence ==
    Returned("get_categorical_summary") =>
        /\ CategoricalKeys
        /\ \A i \in 1..Len(df0) : Categorical(df0[i]) =>
             LET cells == df0[i].cells
                 got == ret.val[df0[i].name]
             IN  /\ got.unique_count = Cardinality(DistinctPresent(cells))
                 /\ Len(got.top_freq) = Min(TopN, Cardinality(DistinctPresent(cells)))
                 /\ \A k \in 1..Len(got.top_freq) :
                      /\ got.top_freq[k].value \in DistinctPresent(cells)
                      /\ RankOf(cells, got.top_freq[k].value) = k
                      /\ got.top_freq[k].count = CountOf(cells, got.top_freq[k].value)

(***************************************************************************)
(* C3 as amended.  get_categorical_summary is keyed by exactly the         *)
(* Categorical columns; unique_count is the number of distinct present     *)
(* values; top_freq holds min(3, unique_count) distinct present values     *)
(* with their occurrence counts, in non-increasing count order, and no     *)
(* value left out is more frequent than one kept.  The order among values  *)
(* of equal frequency, and which of them the cut at 3 keeps, is that of    *)
(* the installed library's sort and is not fixed.                          *)
(***************************************************************************)
C3_TopThreeByFrequency ==
    Returned("get_categorical_summary") =>
        /\ CategoricalKeys
        /\ \A i \in 1..Len(df0) : Categorical(df0[i]) =>
             LET cells == df0[i].cells
                 got == ret.val[df0[i].name]
                 kept == {got.top_freq[k].value : k \in 1..Len(got.top_freq)}
             IN  /\ got.unique_count = Cardinality(DistinctPresent(cells))
                 /\ Len(got.top_freq) = Min(TopN, Cardinality(DistinctPresent(cells)))
                 /\ Cardinality(kept) = Len(got.top_freq)
                 /\ kept \subseteq DistinctPresent(cells)
                 /\ \A k \in 1..Len(got.top_freq) :
                      got.top_freq[k].count = CountOf(cells, got.top_freq[k].value)
                 /\ \A k \in 1..(Len(got.top_freq) - 1) :
                      got.top_freq[k].count >= got.top_freq[k + 1].count
                 /\ \A x \in DistinctPresent(cells) \ kept :
                      \A y \in kept : CountOf(cells, x) <= CountOf(cells, y)

\* Four values, one of them twice, beside a numeric column: the frequent
\* one leads and the cut at 3 falls inside the tie of the other three, of
\* which the one met first is not kept.
C3_Witness ==
    /\ Returned("get_categorical_summary")
    /\ Len(df0) = 2
    /\ DOMAIN ret.val = {"A"}
    /\ ret.val["A"].unique_count = 4
    /\ Len(ret.val["A"].top_freq) = 3
    /\ ret.val["A"].top_freq[1].count = 2
    /\ ret.val["A"].top_freq[2].count = 1
    /\ \E x \in DistinctPresent(df0[1].cells) :
         /\ RankOf(df0[1].cells, x) = 2
         /\ \A k \in 1..3 : ret.val["A"].top_freq[k].value # x

(***************************************************************************)
(* C8.  get_correlations returns a full square matrix keyed on both levels *)
(* by exactly the Numeric columns; it is symmetric; the diagonal entry of  *)
(* a column with non-zero variance is 1.0; a column without variance       *)
(* yields NaN with every column.                                           *)
(***************************************************************************)
One == [nan |-> FALSE, sgn |-> 1, n |-> 1, d |-> 1]

HasVariance(cells) ==
    \E i, j \in PresentRows(cells) : cells[i].v # cells[j].v

C8_CorrelationMatrix ==
    Returned("get_correlations") =>
        LET N == {df0[i].name : i \in {j \in 1..Len(df0) : Numeric(df0[j])}}
        IN  /\ DOMAIN ret.val = N
            /\ \A a \in N : DOMAIN ret.val[a] = N
            /\ \A a, b \in N : ret.val[a][b] = ret.val[b][a]
            /\ \A i \in 1..Len(df0) : Numeric(df0[i]) =>
                 IF HasVariance(df0[i].cells)
                    THEN ret.val[df0[i].name][df0[i].name] = One
                    ELSE \A b \in N : ret.val[df0[i].name][b].nan

\* Two numeric columns with a coefficient of one half beside a text column.
C8_Witness ==
    /\ Returned("get_correlations")
    /\ Len(df0) = 3
    /\ DOMAIN ret.val = {"A", "B"}
    /\ ret.val["A"]["A"] = One
    /\ ret.val["A"]["B"] = [nan |-> FALSE, sgn |-> 1, n |-> 1, d |-> 4]

(***************************************************************************)
(* C4 as claimed.  An empty selection is never an error: on a table with   *)
(* no Numeric column get_basic_stats, get_correlations and                 *)
(* detect_outliers_iqr return an empty mapping, on a table with no         *)
(* Categorical column get_categorical_summary returns an empty mapping,    *)
(* none of these calls raises, and get_basic_stats never reports a column  *)
(* that is not Numeric.                                                    *)
(***************************************************************************)
NumericNames == {df0[i].name : i \in {j \in 1..Len(df0) : Numeric(df0[j])}}
CategoricalNames == {df0[i].name : i \in {j \in 1..Len(df0) : Categorical(df0[j])}}

C4_EmptySelectionNeutral ==
    /\ engine.st = "ready" => ret.exc = "none"
    /\ Returned("get_basic_stats") => DOMAIN ret.val \subseteq NumericNames
    /\ Returned("get_correlations") /\ NumericNames = {} => DOMAIN ret.val = {}
    /\ Returned("detect_outliers_iqr") /\ NumericNames = {} => DOMAIN ret.val = {}
    /\ Returned("get_categorical_summary") /\ CategoricalNames = {}
         => DOMAIN ret.val = {}

(***************************************************************************)
(* C5 as claimed.  The constructor accepts either form of input: built     *)
(* from the path of a readable delimited text file or from an already      *)
(* loaded in-memory table, construction succeeds and the engine's table is *)
(* the supplied data.                                                      *)
(***************************************************************************)
C5_ConstructorAcceptsEitherForm ==
    (engine.st # "none" /\ read_csv(fs).exc = "none") =>
        /\ engine.st = "ready"
        /\ df = read_csv(fs).df

(***************************************************************************)
(* C6.  After any sequence of calls of the five analyses the engine's      *)
(* table is the table supplied at construction, and a call returns what    *)
(* the first call of the same analysis returned.                           *)
(***************************************************************************)
C6_NoMutationIdempotent ==
    engine.st = "ready" =>
        /\ df = df0
        /\ ret.op # "none" => ret.op \in DOMAIN first /\ ret.val = first[ret.op]

\* All five analyses have been called, one of them again, on a table of two
\* columns with a gap.
C6_Witness ==
    /\ engine.st = "ready"
    /\ repeated
    /\ Cardinality(DOMAIN first) = 5
    /\ Len(df0) = 2
    /\ NRows(df0) = 2
    /\ DOMAIN first["analyze_missing_values"] # {}
    /\ ret.op = "get_categorical_summary"
    /\ DOMAIN ret.val # {}

(***************************************************************************)
(* C7.  Once the arguments are parsed every run of main returns to its     *)
(* caller: it never raises, a failure of construction (file not found or   *)
(* any other), of an analysis or of writing the output ends with a printed *)
(* error line, and the "EDA Report saved" line and the row/column,         *)
(* missing-value and outlier summary are printed only when all five        *)
(* analyses completed and the report was written.                          *)
(***************************************************************************)
Printed(text) == \E i \in 1..Len(stdout) : stdout[i].text = text

ErrorLines == {"Error: File not found.", "Error: e"}
SuccessLines == {"EDA Report saved", "--- Quick Summary ---", "Rows, Columns",
                 "Missing Values", "Outliers Detected"}

C7_Safe ==
    /\ mainpc \in {"start", "constructed", "analyzed", "written", "returned"}
    /\ (mainpc = "returned" /\ ~Printed("Outliers Detected"))
         => stdout[Len(stdout)].text \in ErrorLines
    /\ (mainpc = "returned" /\ engine.exc = "FileNotFoundError")
         => stdout[Len(stdout)].text = "Error: File not found."
    /\ \A i \in 1..Len(stdout) : stdout[i].text \in SuccessLines =>
         /\ written
         /\ report.done = EngineMethods
    /\ \A i \in 1..Len(stdout) : stdout[i].text = "Rows, Columns" =>
         stdout[i].a = NRows(df0) /\ stdout[i].b = Len(df0)

\* main has no loop: every step moves it on towards its return, and each
\* position before the return has a step that is guarded by the position
\* alone.
MainRank(pc) ==
    CASE pc = "start" -> 0
      [] pc = "constructed" -> 1
      [] pc = "analyzed" -> 2
      [] pc = "written" -> 3
      [] OTHER -> 4

C7_MainReturnsNormally ==
    /\ []C7_Safe
    /\ [][/\ MainRank(mainpc') > MainRank(mainpc)
          /\ MainRank(mainpc') = 4 => mainpc' = "returned"]_vars

\* A run that failed while writing: returned, error line last, nothing saved.
C7_Witness ==
    /\ mainpc = "returned"
    /\ report.done = EngineMethods
    /\ ~written
    /\ stdout[Len(stdout)].text = "Error: e"
    /\ ~Printed("EDA Report saved")

(***************************************************************************)
(* C10 as claimed.  generate_report, for any in-memory table, completes    *)
(* and returns the document; every analysis it requests is an operation    *)
(* the engine provides; the Missing Values section is present iff some     *)
(* column has a missing entry, each percentage being missing count / row   *)
(* count * 100, and the Outlier section is present iff some column has an  *)
(* outlier.                                                                *)
(***************************************************************************)
C10_ReportCompletes ==
    /\ rg.how = "frame" => rg.pc # "raised"
    /\ rg.how = "frame" =>
         \A i \in 1..Len(RequestedAnalyses) : RequestedAnalyses[i] \in EngineMethods
    /\ rg.pc = "returned" =>
         /\ rg.html.missing_section =
              (\E i \in 1..Len(df0) : MissingRows(df0[i].cells) # {})
         /\ \A i \in 1..Len(df0) : MissingRows(df0[i].cells) # {} =>
              rg.html.pct[df0[i].name] =
                  R(Cardinality(MissingRows(df0[i].cells)) * 100, NRows(df0))
         /\ rg.html.outlier_section =
              (\E i \in 1..Len(df0) :
                  Numeric(df0[i]) /\ ExpectedOutliers(df0[i].cells) > 0)

(***************************************************************************)
(* C10, the second defect alone: whenever the generator's engine could be  *)
(* built, generate_report does not stop on an analysis the engine lacks.   *)
(***************************************************************************)
C10_RequestsProvided ==
    rg.pc # "raised" \/ rg.exc # "AttributeError"

====
